---------------------------- MODULE Spec2Model ----------------------------
(***************************************************************************)
(* Model of src/app.py: the image validator (is_valid_image), the          *)
(* single-image processor (remove_background_high_quality), the directory  *)
(* walker (process_directory_high_quality) and the interactive shell       *)
(* (main).                                                                 *)
(*                                                                         *)
(* A string is a sequence of one-character strings, a path is a sequence   *)
(* of components (each a string); the empty sequence is the empty path "". *)
(* The filesystem is `files` (path -> [size, decodable]) and `dirs` (the   *)
(* set of existing directories).  The external libraries (rembg, PIL) are  *)
(* modelled by their outcome: `decodable` says whether PIL verifies the    *)
(* file, `fault` names the external step of one call that raises.          *)
(***************************************************************************)
EXTENDS Integers, Sequences, FiniteSets, TLC

VARIABLES
    files,          \* filesystem: path -> [size, decodable] of each existing file
    dirs,           \* filesystem: set of existing directories
    pc,             \* "idle", "prompt" (main's loop), "batch" (the walker's loop), "done"
    caller,         \* who runs the walker: "none", "direct" or "main"
    input_dir,      \* process_directory_high_quality: its first argument
    output_dir,     \* process_directory_high_quality: its second argument
    image_files,    \* process_directory_high_quality: the enumerated list
    idx,            \* process_directory_high_quality: files handled so far (i - 1)
    success_count,  \* process_directory_high_quality: tally
    fail_count,     \* process_directory_high_quality: tally
    calls,          \* log of the calls of remove_background_high_quality
    result,         \* what the top-level call returned (or how it ended)
    shell,          \* main: the last thing the loop did
    files0,         \* history: `files` when the program started
    dirs0           \* history: `dirs` when the program started

vars == <<files, dirs, pc, caller, input_dir, output_dir, image_files, idx,
          success_count, fail_count, calls, result, shell, files0, dirs0>>

----------------------------------------------------------------------------
(* Bounds and program constants *)

\* at most this many files exist when the program starts
MaxFiles == 2

\* src/app.py:28  os.path.getsize(file_path) < 100
MinImageSize == 100

----------------------------------------------------------------------------
(* Strings *)

UpperChars == <<"A","B","C","D","E","F","G","H","I","J","K","L","M",
                "N","O","P","Q","R","S","T","U","V","W","X","Y","Z">>

LowerChars == <<"a","b","c","d","e","f","g","h","i","j","k","l","m",
                "n","o","p","q","r","s","t","u","v","w","x","y","z">>

\* str.lower() on one character
LowerChar(c) ==
    IF \E k \in 1..26 : UpperChars[k] = c
    THEN LowerChars[CHOOSE k \in 1..26 : UpperChars[k] = c]
    ELSE c

\* str.lower()
Lower(s) == [k \in 1..Len(s) |-> LowerChar(s[k])]

\* str.rfind('.') + 1: the position of the last dot, 0 when there is none
RFindDot(s) ==
    IF \E k \in 1..Len(s) : s[k] = "."
    THEN CHOOSE k \in 1..Len(s) : s[k] = "." /\ \A j \in (k+1)..Len(s) : s[j] # "."
    ELSE 0

\* pathlib: PurePath.suffix of a file name
\*   i = name.rfind('.'); name[i:] if 0 < i < len(name) - 1 else ''
PathSuffix(name) ==
    LET i == RFindDot(name) IN
    IF 1 < i /\ i < Len(name) THEN SubSeq(name, i, Len(name)) ELSE <<>>

\* genericpath._splitext on one component: the dot that splits is the last
\* one, and it splits only when a character that is not a dot precedes it
SplitDot(name) ==
    LET d == RFindDot(name) IN
    IF d > 0 /\ \E k \in 1..(d-1) : name[k] # "." THEN d ELSE 0

\* os.path.splitext(p)[0]: only the last component can lose an extension
SplitextRoot(p) ==
    IF p = <<>> THEN <<>>
    ELSE LET name == p[Len(p)]
             d    == SplitDot(name)
             stem == IF d > 0 THEN SubSeq(name, 1, d - 1) ELSE name
         IN  [p EXCEPT ![Len(p)] = stem]

\* p + tail for a non-empty path: the text is appended to the last component
AppendText(p, tail) ==
    IF p = <<>> THEN <<tail>> ELSE [p EXCEPT ![Len(p)] = p[Len(p)] \o tail]

\* the literal '_sem_fundo.png' (src/app.py:131 and :166)
SemFundoPng == <<"_","s","e","m","_","f","u","n","d","o",".","p","n","g">>

\* supported_formats (src/app.py:109)
supported_formats ==
    { <<".","j","p","g">>, <<".","j","p","e","g">>, <<".","p","n","g">>,
      <<".","b","m","p">>, <<".","t","i","f","f">>, <<".","w","e","b","p">> }

----------------------------------------------------------------------------
(* Paths and the filesystem *)

IsPrefix(a, b) == Len(a) <= Len(b) /\ SubSeq(b, 1, Len(a)) = a

\* os.path.join(a, b) for a relative b
Join(a, b) == a \o b

\* os.path.dirname(p)
Dirname(p) == IF p = <<>> THEN <<>> ELSE SubSeq(p, 1, Len(p) - 1)

\* os.path.relpath(p, start) for p under start
Relpath(p, start) == SubSeq(p, Len(start) + 1, Len(p))

\* os.path.exists(p)
Exists(fs, ds, p) == p \in DOMAIN fs \/ p \in ds

\* the non-empty prefixes of a directory path
Prefixes(d) == { SubSeq(d, 1, k) : k \in 1..Len(d) }

\* os.makedirs(d, exist_ok=True) raises on the empty path (FileNotFoundError)
\* and when a component of d is an existing file
MakedirsRaises(fs, d) == d = <<>> \/ \E q \in Prefixes(d) : q \in DOMAIN fs

----------------------------------------------------------------------------
(* The external steps of one call of remove_background_high_quality that   *)
(* can raise for a reason outside the program: the imports (lines 50-53),  *)
(* new_session (66), Image.open/convert/save of the input (69-76), remove  *)
(* (79-85), Image.open/convert of the returned bytes (88), os.makedirs for *)
(* a reason of the operating system (91) and the save (94).                *)

Faults == {"none", "import", "session", "open", "remove", "decode", "makedirs", "save"}

\* the sizes a file can have: around the threshold of is_valid_image
Sizes == {MinImageSize - 1, MinImageSize, MinImageSize + 1}

FileKinds == [size : Sizes, decodable : BOOLEAN]

\* the PNG that output_image.save writes (line 94): an image PIL decodes; no
\* operation of the model reads a written file back, its size stands for any
WrittenPng == [size |-> MinImageSize + 1, decodable |-> TRUE]

----------------------------------------------------------------------------
(* is_valid_image (src/app.py:24-34) *)

\* mutant of IsValidImageBody: the size test is <= instead of <
IsValidImageBodyStrict(fs, ds, file_path, pil) ==
    IF ~pil THEN "raise"
    ELSE IF ~Exists(fs, ds, file_path) THEN "raise"
    ELSE IF file_path \in ds THEN "raise"
    ELSE IF fs[file_path].size <= MinImageSize THEN "False"
    ELSE IF ~fs[file_path].decodable THEN "raise"
    ELSE "True"

\* the body of the try block: "True", "False", or "raise" when a statement
\* of the block raises (the import, os.path.getsize, Image.open, verify)
IsValidImageBody(fs, ds, file_path, pil) ==
    IF ~pil THEN "raise"                                  \* from PIL import Image
    ELSE IF ~Exists(fs, ds, file_path) THEN "raise"       \* getsize: FileNotFoundError
    ELSE IF file_path \in ds THEN "raise"                 \* Image.open of a directory
    ELSE IF fs[file_path].size < MinImageSize THEN "False"
    ELSE IF ~fs[file_path].decodable THEN "raise"         \* Image.open / img.verify()
    ELSE "True"

\* try: ... except Exception: return False
is_valid_image(fs, ds, file_path, pil) ==
    LET r == IsValidImageBody(fs, ds, file_path, pil) IN
    IF r = "raise" THEN "False" ELSE r

----------------------------------------------------------------------------
(* remove_background_high_quality (src/app.py:36-101) *)

\* what one call leaves: its return value, the filesystem, and the external
\* fault that fired (if any)
Outcome(ret, fs, ds, fault) == [ret |-> ret, files |-> fs, dirs |-> ds, fault |-> fault]

\* mutant of Rejected: the validity check of line 59 is missing
RejectedOnlyMissing(fs, ds, input_path) == ~Exists(fs, ds, input_path)

\* lines 55-61: the two rejections, each a `return False`
Rejected(fs, ds, input_path) ==
    IF ~Exists(fs, ds, input_path) THEN TRUE
    ELSE is_valid_image(fs, ds, input_path, TRUE) # "True"

\* the body of the try block (lines 50-97); fault is the external step that
\* raises when it is reached
RemoveBody(fs, ds, input_path, output_path, fault) ==
    IF fault = "import" THEN Outcome("raise", fs, ds, fault)
    ELSE IF Rejected(fs, ds, input_path) THEN Outcome("False", fs, ds, "none")
    ELSE IF fault \in {"session", "open", "remove", "decode", "makedirs"}
         THEN Outcome("raise", fs, ds, fault)
    ELSE IF MakedirsRaises(fs, Dirname(output_path))
         THEN Outcome("raise", fs, ds, "none")
    ELSE LET made == ds \cup Prefixes(Dirname(output_path)) IN
         IF fault = "save" THEN Outcome("raise", fs, made, fault)
         ELSE IF output_path \in made THEN Outcome("raise", fs, made, "none")
         ELSE Outcome("True",
                      [p \in DOMAIN fs \cup {output_path} |->
                          IF p = output_path THEN WrittenPng ELSE fs[p]],
                      made, "none")

\* mutant of remove_background_high_quality: no except clause
RemoveUncaught(fs, ds, input_path, output_path, fault) ==
    RemoveBody(fs, ds, input_path, output_path, fault)

\* try: ... except Exception as e: print(...); return False
remove_background_high_quality(fs, ds, input_path, output_path, fault) ==
    LET o == RemoveBody(fs, ds, input_path, output_path, fault) IN
    IF o.ret = "raise" THEN [o EXCEPT !.ret = "False"] ELSE o

\* the entry of the call log for one call
CallRecord(fs, ds, input_path, output_path, o) ==
    [input  |-> input_path,
     output |-> output_path,
     exists |-> Exists(fs, ds, input_path),
     valid  |-> is_valid_image(fs, ds, input_path, TRUE) = "True",
     fault  |-> o.fault,
     ret    |-> o.ret]

----------------------------------------------------------------------------
(* The files and the arguments the program is run on *)

In          == <<"i","n">>
Sub         == <<"s","u","b">>
Out         == <<"o","u","t">>
Deep        == <<"d","e","e","p">>
Missing     == <<"n","o","n","e">>
Dot         == <<".">>
Processadas == <<"p","r","o","c","e","s","s","a","d","a","s">>

APng      == <<"a",".","p","n","g">>
AJpg      == <<"a",".","j","p","g">>
ImgPNG    == <<"I","M","G",".","P","N","G">>
BTxt      == <<"b",".","t","x","t">>
ATarPng   == <<"a",".","t","a","r",".","p","n","g">>
DotPng    == <<".","p","n","g">>
DotDotPng == <<".",".","p","n","g">>
PhotoJpg  == <<"p","h","o","t","o",".","j","p","g">>
XPng      == <<"x",".","p","n","g">>

\* the files that may exist when the walker is called: under in/ and in/sub/
BatchCandidates ==
    { <<In, APng>>, <<In, AJpg>>, <<In, ImgPNG>>, <<In, BTxt>>,
      <<In, DotPng>>, <<In, DotDotPng>>, <<In, Sub, ATarPng>> }

\* the files that may exist when the validator, the processor or main is
\* called: two under in/, one in the current directory
CallCandidates == { <<In, APng>>, <<In, BTxt>>, <<PhotoJpg>> }

\* the output paths of a direct call: in a directory to create, and bare
OutputPaths == { <<Out, Deep, XPng>>, <<XPng>> }

\* the roots the walker is called on
InputDirs  == { <<In>>, <<Missing>> }
OutputDirs == { <<Out>>, <<>> }

\* the external faults drawn for one file of a batch: none, one before the
\* filesystem is touched, one after the destination directory is made
BatchFaults == { "none", "remove", "save" }

----------------------------------------------------------------------------
(* os.walk (src/app.py:112-115) *)

\* the files under a root, at any depth
FilesUnder(fs, root) == { p \in DOMAIN fs : IsPrefix(root, p) /\ Len(p) > Len(root) }

Injective(s) == \A i, j \in 1..Len(s) : s[i] = s[j] => i = j

\* the orders in which os.walk (top-down) can yield the files under root:
\* the files of one directory together, in any order (that of os.listdir),
\* a directory before the directories under it
WalkOrders(fs, root) ==
    LET S == FilesUnder(fs, root)
        n == Cardinality(S)
    IN  { s \in [1..n -> S] :
            /\ Injective(s)
            /\ \A i, j \in 1..n :
                  i < j => ~(IsPrefix(Dirname(s[j]), Dirname(s[i]))
                             /\ Dirname(s[j]) # Dirname(s[i]))
            /\ \A i, j, k \in 1..n :
                  (i < k /\ k < j /\ Dirname(s[i]) = Dirname(s[j]))
                      => Dirname(s[k]) = Dirname(s[i]) }

\* mutant of IsSupported: the suffix is compared without .lower()
IsSupportedCaseSensitive(p) == PathSuffix(p[Len(p)]) \in supported_formats

\* mutant of IsSupported: every file is taken
IsSupportedAny(p) == TRUE

\* if Path(file).suffix.lower() in supported_formats
IsSupported(p) == Lower(PathSuffix(p[Len(p)])) \in supported_formats

\* image_files: the walk order, filtered
ImageFiles(walk) == SelectSeq(walk, IsSupported)

\* output_file of one image (src/app.py:129-131)
OutputFile(img_file, in_d, out_d) ==
    AppendText(SplitextRoot(Join(out_d, Relpath(img_file, in_d))), SemFundoPng)

----------------------------------------------------------------------------
(* The initial state: up to MaxFiles files drawn from a set of candidates, *)
(* the input tree's directories, no output directory, nothing called yet.  *)

InitWith(candidates) ==
    /\ files \in UNION { [S -> FileKinds] :
                            S \in { T \in SUBSET candidates : Cardinality(T) <= MaxFiles } }
    /\ dirs = { <<In>>, <<In, Sub>> }
    /\ files0 = files
    /\ dirs0 = dirs
    /\ pc = "idle"
    /\ caller = "none"
    /\ input_dir = <<>>
    /\ output_dir = <<>>
    /\ image_files = <<>>
    /\ idx = 0
    /\ success_count = 0
    /\ fail_count = 0
    /\ calls = <<>>
    /\ result = [op |-> "none", ended |-> "none", value |-> "none"]
    /\ shell = "none"

batchVars == <<caller, input_dir, output_dir, image_files, idx, success_count, fail_count>>

----------------------------------------------------------------------------
(* Direct calls of the validator and of the processor *)

\* is_valid_image(file_path), with PIL importable or not
IsValidImageCall(file_path, pil) ==
    /\ pc = "idle"
    /\ pc' = "done"
    /\ result' = [op |-> "is_valid_image", ended |-> "return",
                  value |-> is_valid_image(files, dirs, file_path, pil),
                  path |-> file_path, pil |-> pil]
    /\ UNCHANGED <<files, dirs, batchVars, calls, shell, files0, dirs0>>

\* remove_background_high_quality(input_path, output_path)
RemoveCall(input_path, output_path, fault) ==
    /\ pc = "idle"
    /\ LET o == remove_background_high_quality(files, dirs, input_path, output_path, fault)
       IN  /\ files' = o.files
           /\ dirs' = o.dirs
           /\ calls' = Append(calls, CallRecord(files, dirs, input_path, output_path, o))
           /\ result' = [op |-> "remove_background_high_quality", ended |-> "return",
                         value |-> o.ret]
    /\ pc' = "done"
    /\ UNCHANGED <<batchVars, shell, files0, dirs0>>

----------------------------------------------------------------------------
(* process_directory_high_quality (src/app.py:103-138) *)

\* the function returns `tally` to `who`: a direct caller gets the pair, main
\* prints the summary and leaves its loop (src/app.py:185-194)
Returned(who, tally) ==
    /\ pc' = "done"
    /\ result' = [op |-> IF who = "main" THEN "main" ELSE "process_directory_high_quality",
                  ended |-> "return", value |-> tally]
    /\ shell' = IF who = "main" THEN "summary" ELSE shell

\* lines 105-124: the two early returns, the enumeration, the counters
ProcessDirectoryEnter(in_d, out_d, walk, who) ==
    /\ caller' = who
    /\ input_dir' = in_d
    /\ output_dir' = out_d
    /\ idx' = 0
    /\ success_count' = 0
    /\ fail_count' = 0
    /\ IF ~Exists(files, dirs, in_d)
       THEN image_files' = <<>> /\ Returned(who, <<0, 0>>)
       ELSE /\ image_files' = ImageFiles(walk)
            /\ IF ImageFiles(walk) = <<>>
               THEN Returned(who, <<0, 0>>)
               ELSE /\ pc' = "batch"
                    /\ result' = result
                    /\ shell' = IF who = "main" THEN "option2" ELSE shell
    /\ UNCHANGED <<files, dirs, calls, files0, dirs0>>

\* mutant of Tally: a failure is not counted
TallyDropsFailure(ret, s, f) == IF ret = "True" THEN <<s + 1, f>> ELSE <<s, f>>

\* lines 133-136: the tally after one call of the processor
Tally(ret, s, f) == IF ret = "True" THEN <<s + 1, f>> ELSE <<s, f + 1>>

\* process_directory_high_quality(input_dir, output_dir), called directly
BatchCall(in_d, out_d, walk) ==
    /\ pc = "idle"
    /\ ProcessDirectoryEnter(in_d, out_d, walk, "direct")

\* lines 126-136: one iteration of the loop
BatchStep(fault) ==
    /\ pc = "batch"
    /\ idx < Len(image_files)
    /\ LET img_file    == image_files[idx + 1]
           output_file == OutputFile(img_file, input_dir, output_dir)
           o == remove_background_high_quality(files, dirs, img_file, output_file, fault)
       IN  /\ files' = o.files
           /\ dirs' = o.dirs
           /\ calls' = Append(calls, CallRecord(files, dirs, img_file, output_file, o))
           /\ success_count' = Tally(o.ret, success_count, fail_count)[1]
           /\ fail_count' = Tally(o.ret, success_count, fail_count)[2]
    /\ idx' = idx + 1
    /\ UNCHANGED <<pc, caller, input_dir, output_dir, image_files, result, shell,
                   files0, dirs0>>

\* line 138: return success_count, fail_count
BatchReturn ==
    /\ pc = "batch"
    /\ idx = Len(image_files)
    /\ Returned(caller, <<success_count, fail_count>>)
    /\ UNCHANGED <<files, dirs, batchVars, calls, files0, dirs0>>

\* KeyboardInterrupt while a batch runs: in a batch called directly it
\* propagates to the caller, in main's batch it is caught at lines 203-205
BatchInterrupt ==
    /\ pc = "batch"
    /\ pc' = "done"
    /\ shell' = IF caller = "main" THEN "interrupt" ELSE shell
    /\ result' = [op |-> IF caller = "main" THEN "main" ELSE "process_directory_high_quality",
                  ended |-> "interrupt", value |-> "none"]
    /\ UNCHANGED <<files, dirs, batchVars, calls, files0, dirs0>>

----------------------------------------------------------------------------
(* main (src/app.py:140-207) *)

\* lines 142-151: the dependency check, then the menu
MainStart(deps) ==
    /\ pc = "idle"
    /\ IF deps
       THEN /\ pc' = "prompt"
            /\ shell' = "menu"
            /\ result' = result
       ELSE /\ pc' = "done"
            /\ shell' = "nodeps"
            /\ result' = [op |-> "main", ended |-> "return", value |-> "none"]
    /\ UNCHANGED <<files, dirs, batchVars, calls, files0, dirs0>>

\* mutant of MainInvalid: an invalid choice leaves the loop
MainInvalidBreaks ==
    /\ pc = "prompt"
    /\ shell' = "invalid"
    /\ pc' = "done"
    /\ UNCHANGED <<files, dirs, batchVars, calls, result, files0, dirs0>>

\* lines 200-201: a choice other than 1, 2 or 3
MainInvalid ==
    /\ pc = "prompt"
    /\ shell' = "invalid"
    /\ UNCHANGED <<files, dirs, pc, batchVars, calls, result, files0, dirs0>>

\* lines 157-173: choice 1; an empty input path asks again, an empty output
\* path is derived from the input path
MainOption1(input_path, output_path, fault) ==
    /\ pc = "prompt"
    /\ IF input_path = <<>>
       THEN /\ shell' = "empty"
            /\ UNCHANGED <<files, dirs, pc, calls, result>>
       ELSE LET out == IF output_path = <<>>
                       THEN AppendText(SplitextRoot(input_path), SemFundoPng)
                       ELSE output_path
                o == remove_background_high_quality(files, dirs, input_path, out, fault)
            IN  /\ files' = o.files
                /\ dirs' = o.dirs
                /\ calls' = Append(calls, CallRecord(files, dirs, input_path, out, o))
                /\ shell' = IF o.ret = "True" THEN "success" ELSE "failure"
                /\ result' = [op |-> "main", ended |-> "return", value |-> o.ret]
                /\ pc' = "done"
    /\ UNCHANGED <<batchVars, files0, dirs0>>

\* lines 175-194: choice 2; an empty input directory asks again, an empty
\* output directory is './processadas'
MainOption2(in_d, out_d, walk) ==
    /\ pc = "prompt"
    /\ IF in_d = <<>>
       THEN /\ shell' = "empty"
            /\ UNCHANGED <<files, dirs, pc, batchVars, calls, result, files0, dirs0>>
       ELSE ProcessDirectoryEnter(in_d, IF out_d = <<>> THEN <<Dot, Processadas>> ELSE out_d,
                                  walk, "main")

\* lines 196-198: choice 3
MainExit ==
    /\ pc = "prompt"
    /\ shell' = "exit"
    /\ pc' = "done"
    /\ result' = [op |-> "main", ended |-> "return", value |-> "none"]
    /\ UNCHANGED <<files, dirs, batchVars, calls, files0, dirs0>>

\* lines 206-207: input() raises an Exception (EOFError): printed, and the
\* loop goes on
MainError ==
    /\ pc = "prompt"
    /\ shell' = "error"
    /\ UNCHANGED <<files, dirs, pc, batchVars, calls, result, files0, dirs0>>

\* lines 203-205: KeyboardInterrupt at the prompt
MainInterrupt ==
    /\ pc = "prompt"
    /\ pc' = "done"
    /\ shell' = "interrupt"
    /\ result' = [op |-> "main", ended |-> "return", value |-> "none"]
    /\ UNCHANGED <<files, dirs, batchVars, calls, files0, dirs0>>

----------------------------------------------------------------------------
(* Three specifications: the validator and the processor called directly,  *)
(* the walker called directly, and the program run through main.           *)

\* the paths a direct call is given: every existing file, a directory, and
\* a path that does not exist
InputPaths == DOMAIN files \cup { <<In>>, <<Missing>> }

InitCalls == InitWith(CallCandidates)

NextCalls ==
    \/ \E p \in InputPaths, pil \in BOOLEAN : IsValidImageCall(p, pil)
    \/ \E p \in InputPaths, q \in OutputPaths, f \in Faults : RemoveCall(p, q, f)

SpecCalls == InitCalls /\ [][NextCalls]_vars

InitBatch == InitWith(BatchCandidates)

NextBatch ==
    \/ /\ pc = "idle"
       /\ \E i \in InputDirs, o \in OutputDirs : \E w \in WalkOrders(files, i) :
             BatchCall(i, o, w)
    \/ \E f \in BatchFaults : BatchStep(f)
    \/ BatchReturn
    \/ BatchInterrupt

SpecBatch == InitBatch /\ [][NextBatch]_vars

InitMain == InitWith(CallCandidates)

NextMain ==
    \/ \E d \in BOOLEAN : MainStart(d)
    \/ MainInvalid
    \/ /\ pc = "prompt"
       /\ \E p \in {<<>>, <<PhotoJpg>>, <<In, APng>>}, q \in {<<>>, <<Out, XPng>>},
             f \in Faults : MainOption1(p, q, f)
    \/ /\ pc = "prompt"
       /\ \E i \in InputDirs \cup {<<>>}, o \in OutputDirs :
             \E w \in WalkOrders(files, i) : MainOption2(i, o, w)
    \/ MainExit
    \/ MainError
    \/ MainInterrupt
    \/ \E f \in BatchFaults : BatchStep(f)
    \/ BatchReturn
    \/ BatchInterrupt

SpecMain == InitMain /\ [][NextMain]_vars

----------------------------------------------------------------------------
(* Notions the properties are stated with, defined apart from the code's   *)
(* own operators.                                                          *)

\* the extensions the specification lists
SupportedExtensions ==
    { <<"j","p","g">>, <<"j","p","e","g">>, <<"p","n","g">>,
      <<"b","m","p">>, <<"t","i","f","f">>, <<"w","e","b","p">> }

\* c is the lower-case letter l, or its upper-case form
SameLetter(c, l) == c = l \/ \E k \in 1..26 : LowerChars[k] = l /\ UpperChars[k] = c

\* name is <stem>.<e> for a non-empty stem, the letters of e in either case
EndsWithExtension(name, e) ==
    /\ Len(name) > Len(e) + 1
    /\ name[Len(name) - Len(e)] = "."
    /\ \A k \in 1..Len(e) : SameLetter(name[Len(name) - Len(e) + k], e[k])

HasSupportedExtension(name) == \E e \in SupportedExtensions : EndsWithExtension(name, e)

\* the name without its last extension: what precedes the last dot
BasenameWithoutExt(name) ==
    LET dots == { k \in 1..Len(name) : name[k] = "." } IN
    IF dots = {} THEN name
    ELSE SubSeq(name, 1, (CHOOSE k \in dots : \A j \in dots : j <= k) - 1)

\* the calls of the processor so far
Calls == { calls[k] : k \in 1..Len(calls) }

\* the walker was called, directly or by main
WalkerCalled == caller # "none"

\* the walker returned its tally
WalkerReturned == WalkerCalled /\ pc = "done" /\ result.ended = "return"

\* the number of calls that returned `ret`
CountRet(ret) == Cardinality({ k \in 1..Len(calls) : calls[k].ret = ret })

----------------------------------------------------------------------------
C2_RejectedInputWritesNothing ==
    \A c \in Calls :
        ~(c.exists /\ c.valid) =>
            /\ c.ret = "False"
            /\ Len(calls) = 1 => (files = files0 /\ dirs = dirs0)

\* an existing file that fails validation, an output directory to create
C2_Witness ==
    /\ Len(calls) = 1
    /\ calls[1].exists /\ ~calls[1].valid
    /\ calls[1].input \in DOMAIN files0
    /\ calls[1].output = <<Out, Deep, XPng>>
    /\ result.value = "False"

(* C3  No exception leaves the processor: every call returns True or       *)
(* False, a call in which an external step raised returns False, and a     *)
(* call returns True only with the output file written.                    *)
C3_NoExceptionEscapes ==
    /\ \A c \in Calls :
          /\ c.ret \in {"True", "False"}
          /\ c.fault # "none" => c.ret = "False"
          /\ c.ret = "True" => (c.output \in DOMAIN files /\ files[c.output] = WrittenPng)
    /\ result.op = "remove_background_high_quality" => result.value \in {"True", "False"}

\* the save raised after the directory was made: the call returned False
C3_Witness ==
    /\ Len(calls) = 1
    /\ calls[1].fault = "save"
    /\ calls[1].ret = "False"
    /\ <<Out, Deep>> \in dirs
    /\ calls[1].output \notin DOMAIN files

(* C4  The walker called on a root that does not exist, or under which no  *)
(* file has a supported extension, returns (0, 0), never calls the         *)
(* processor and changes nothing in the filesystem.                        *)
C4_EmptyBatchWritesNothing ==
    ( /\ WalkerCalled
      /\ \/ ~Exists(files0, dirs0, input_dir)
         \/ \A p \in DOMAIN files0 :
               ~(IsPrefix(input_dir, p) /\ Len(p) > Len(input_dir)
                 /\ HasSupportedExtension(p[Len(p)])) )
    => /\ WalkerReturned
       /\ result.value = <<0, 0>>
       /\ success_count = 0 /\ fail_count = 0
       /\ calls = <<>>
       /\ files = files0
       /\ dirs = dirs0

\* an existing root that holds files, none with a supported extension
C4_Witness ==
    /\ WalkerReturned
    /\ input_dir = <<In>>
    /\ \E p \in DOMAIN files0 : IsPrefix(<<In>>, p)
    /\ result.value = <<0, 0>>
    /\ calls = <<>>

(* C5  The files the walker enumerates are exactly the files at any depth  *)
(* under the input root whose extension is, in either case, one of jpg,    *)
(* jpeg, png, bmp, tiff, webp, each once; no other file is processed or    *)
(* counted.                                                                *)
C5_EnumeratesSupportedFiles ==
    WalkerCalled =>
        LET expected == { p \in DOMAIN files0 :
                            /\ IsPrefix(input_dir, p) /\ Len(p) > Len(input_dir)
                            /\ HasSupportedExtension(p[Len(p)]) }
        IN  /\ { image_files[k] : k \in 1..Len(image_files) } = expected
            /\ Len(image_files) = Cardinality(expected)
            /\ \A c \in Calls : c.input \in expected
            /\ WalkerReturned => success_count + fail_count = Cardinality(expected)

\* IMG.PNG is enumerated and processed, b.txt beside it is not
C5_Witness ==
    /\ WalkerReturned
    /\ <<In, BTxt>> \in DOMAIN files0
    /\ Len(calls) = 1
    /\ calls[1].input = <<In, ImgPNG>>
    /\ success_count + fail_count = 1

(* C6  For every enumerated file the output path the walker passes on is   *)
(* <output_root>/<relative_dir>/<basename_without_ext>_sem_fundo.png.      *)
C6_OutputPathRule ==
    WalkerCalled =>
        \A c \in Calls :
            LET rel  == SubSeq(c.input, Len(input_dir) + 1, Len(c.input))
                rdir == SubSeq(rel, 1, Len(rel) - 1)
                name == rel[Len(rel)]
            IN  c.output = output_dir \o rdir \o <<BasenameWithoutExt(name) \o SemFundoPng>>

(* C7  is_valid_image returns True exactly when the file exists, is at     *)
(* least 100 bytes long and is verified by the decoding library; in every  *)
(* other case it returns False; it never raises and changes nothing.       *)
C7_ValidatorContract ==
    result.op = "is_valid_image" =>
        /\ result.value \in {"True", "False"}
        /\ result.value = "True" <=>
              /\ result.pil
              /\ result.path \in DOMAIN files0
              /\ files0[result.path].size >= 100
              /\ files0[result.path].decodable
        /\ files = files0
        /\ dirs = dirs0

\* a decodable file of exactly 100 bytes is valid
C7_Witness ==
    /\ result.op = "is_valid_image"
    /\ result.pil
    /\ result.path \in DOMAIN files0
    /\ files0[result.path].size = 100
    /\ files0[result.path].decodable
    /\ result.value = "True"

\* C7 as first stated: valid only when the size exceeds 100 bytes
C7_Original ==
    result.op = "is_valid_image" =>
        ( result.value = "True" <=>
              /\ result.pil
              /\ result.path \in DOMAIN files0
              /\ files0[result.path].size > 100
              /\ files0[result.path].decodable )

(* C8  main's loop asks again only after an invalid option, an empty path  *)
(* or a caught exception; it ends on exit (option 3), on an interrupt, and *)
(* also as soon as option 1 or option 2 has run.                           *)
C8_LoopEnds ==
    /\ shell \in {"menu", "invalid", "empty", "error"} => pc = "prompt"
    /\ shell = "option2" => pc = "batch"
    /\ shell \in {"exit", "interrupt", "success", "failure", "summary", "nodeps"}
          => pc = "done"
    /\ shell \in {"success", "failure"} => Len(calls) = 1
    /\ shell = "summary" => WalkerReturned

\* option 1 has run and the loop has ended
C8_Witness ==
    /\ shell = "success"
    /\ pc = "done"
    /\ Len(calls) = 1

\* C8 as first stated: once in the loop, main ends only on exit or interrupt
C8_Original ==
    (pc = "done" /\ shell \notin {"none", "nodeps"}) => shell \in {"exit", "interrupt"}

(* C9  A call of the processor on a valid input, in which no external step *)
(* raises, makes the destination directory, writes the output file and     *)
(* returns True, whatever the output path.                                 *)
C9_ValidInputIsWritten ==
    \A c \in Calls :
        (c.valid /\ c.fault = "none") =>
            /\ c.ret = "True"
            /\ c.output \in DOMAIN files
            /\ Dirname(c.output) # <<>> => Dirname(c.output) \in dirs

(* C10  Within one batch distinct files get distinct output paths, and     *)
(* when the batch returns the number of output files created is            *)
(* success_count.                                                          *)
C10_DistinctOutputs ==
    WalkerCalled =>
        /\ \A j, k \in 1..Len(calls) : calls[j].output = calls[k].output => j = k
        /\ WalkerReturned => Cardinality(DOMAIN files \ DOMAIN files0) = success_count

============================================================================
